---- MODULE Spec2Model ----
(***************************************************************************)
(* A model of agrisum/ingest-clone: the Selector (pkg/config), the Walker  *)
(* (pkg/analyzer) and the Renderer (pkg/formatter).                        *)
(*                                                                         *)
(* Strings are sequences of one-character strings, so that prefix tests,   *)
(* glob matching, lower-casing and filepath.Base/Dir/Ext are computed on   *)
(* characters as the Go code computes them on bytes.                       *)
(***************************************************************************)
EXTENDS Integers, Sequences, FiniteSets, TLC

VARIABLES
    fs,       \* the scanned filesystem entry (a file or a directory tree)
    cfg,      \* the config.Config handed to ProcessPath / the Selector
    pc,       \* position of the caller: which operation ran last
    root,     \* the *FileSystemNode ProcessPath returned (or NoNode)
    err,      \* whether ProcessPath returned a non-nil error
    result,   \* the *AnalysisResult FormatResults returned (or NoResult)
    probe,    \* Selector specification: the path asked about
    decision  \* Selector specification: the two answers

vars == <<fs, cfg, pc, root, err, result, probe, decision>>

(***************************************************************************)
(* Characters and strings                                                  *)
(***************************************************************************)

\* The ASCII characters the model uses, in increasing byte order.
AsciiOrder ==
    << "NUL", " ", "*", "-", ".", "/", ":", "?", "A", "B", "C", "D", "E", "F",
       "G", "H", "I", "J", "K", "L", "M", "N", "O", "P", "Q", "R", "S", "T",
       "U", "V", "W", "X", "Y", "Z", "[", "]", "_", "a", "b", "c", "d", "e",
       "f", "g", "h", "i", "j", "k", "l", "m", "n", "o", "p", "q", "r", "s",
       "t", "u", "v", "w", "x", "y", "z" >>

\* The byte value order of two characters.
Rank(c) == CHOOSE i \in 1..Len(AsciiOrder) : AsciiOrder[i] = c

UpperCase == << "A", "B", "C", "D", "E", "F", "G", "H", "I", "J", "K", "L", "M",
                "N", "O", "P", "Q", "R", "S", "T", "U", "V", "W", "X", "Y", "Z" >>
LowerCase == << "a", "b", "c", "d", "e", "f", "g", "h", "i", "j", "k", "l", "m",
                "n", "o", "p", "q", "r", "s", "t", "u", "v", "w", "x", "y", "z" >>

\* strings.ToLower on one character, then on a string.
ToLowerChar(c) ==
    IF \E i \in 1..Len(UpperCase) : UpperCase[i] = c
    THEN LowerCase[CHOOSE i \in 1..Len(UpperCase) : UpperCase[i] = c]
    ELSE c

ToLower(s) == [i \in 1..Len(s) |-> ToLowerChar(s[i])]

\* Go's s < t on strings: byte-wise lexicographic order.
RECURSIVE StrLess(_, _)
StrLess(s, t) ==
    IF t = <<>> THEN FALSE
    ELSE IF s = <<>> THEN TRUE
    ELSE IF s[1] = t[1] THEN StrLess(Tail(s), Tail(t))
    ELSE Rank(s[1]) < Rank(t[1])

\* Go's s > t on strings.
StrGreater(s, t) == StrLess(t, s)

\* strings.HasPrefix and strings.HasSuffix.
HasPrefix(s, prefix) ==
    /\ Len(prefix) <= Len(s)
    /\ SubSeq(s, 1, Len(prefix)) = prefix

HasSuffix(s, suffix) ==
    /\ Len(suffix) <= Len(s)
    /\ SubSeq(s, Len(s) - Len(suffix) + 1, Len(s)) = suffix

\* strings.TrimSuffix: removes one trailing occurrence.
TrimSuffix(s, suffix) ==
    IF HasSuffix(s, suffix) THEN SubSeq(s, 1, Len(s) - Len(suffix)) ELSE s

Separator == "/"

\* The index of the last separator of s[1..i], 0 when there is none.
RECURSIVE LastSepUpTo(_, _)
LastSepUpTo(s, i) ==
    IF i = 0 THEN 0
    ELSE IF s[i] = Separator THEN i
    ELSE LastSepUpTo(s, i - 1)

LastSep(s) == LastSepUpTo(s, Len(s))

\* The index of the last dot of s[from..i], 0 when there is none.
RECURSIVE LastDotUpTo(_, _, _)
LastDotUpTo(s, from, i) ==
    IF i < from THEN 0
    ELSE IF s[i] = "." THEN i
    ELSE LastDotUpTo(s, from, i - 1)

\* s without its trailing separators.
RECURSIVE StripTrailingSep(_)
StripTrailingSep(s) ==
    IF s # <<>> /\ s[Len(s)] = Separator
    THEN StripTrailingSep(SubSeq(s, 1, Len(s) - 1))
    ELSE s

\* filepath.Base: the last element of the path; "." for the empty path and
\* "/" for a path of separators only.
Base(path) ==
    IF path = <<>> THEN <<".">>
    ELSE LET p == StripTrailingSep(path)
             e == SubSeq(p, LastSep(p) + 1, Len(p))
         IN  IF e = <<>> THEN <<Separator>> ELSE e

\* filepath.Dir: all but the last element, cleaned.  The paths of the model
\* have no "." or ".." elements and no doubled separators, so Clean only drops
\* the trailing separator of a directory other than the root.
Dir(path) ==
    LET d == SubSeq(path, 1, LastSep(path))
        c == StripTrailingSep(d)
    IN  IF d = <<>> THEN <<".">>
        ELSE IF c = <<>> THEN <<Separator>>
        ELSE c

\* filepath.Join of a clean directory path and one element.
Join(dir, name) ==
    IF HasSuffix(dir, <<Separator>>) THEN dir \o name
    ELSE dir \o <<Separator>> \o name

\* filepath.Ext: the suffix of the last element that starts at its last dot.
Ext(path) ==
    LET d == LastDotUpTo(path, LastSep(path) + 1, Len(path))
    IN  IF d = 0 THEN <<>> ELSE SubSeq(path, d, Len(path))

\* filepath.Match for patterns built from literals, "*" and "?" (the patterns
\* of the model contain no character class and no escape): "*" matches any
\* run of non-separator characters, "?" one non-separator character.
RECURSIVE Match(_, _)
Match(pattern, name) ==
    IF pattern = <<>> THEN name = <<>>
    ELSE IF pattern[1] = "*"
    THEN \/ Match(Tail(pattern), name)
         \/ /\ name # <<>>
            /\ name[1] # Separator
            /\ Match(pattern, Tail(name))
    ELSE IF pattern[1] = "?"
    THEN /\ name # <<>>
         /\ name[1] # Separator
         /\ Match(Tail(pattern), Tail(name))
    ELSE /\ name # <<>>
         /\ name[1] = pattern[1]
         /\ Match(Tail(pattern), Tail(name))

(***************************************************************************)
(* pkg/config: the Selector                                                *)
(***************************************************************************)

DefaultMaxFileSize == 10485760
DefaultDirDepth == 20
DefaultMaxFiles == 10000
DefaultMaxTotalSize == 524288000

\* One iteration of the pattern loop shared by ShouldInclude and
\* ShouldExclude: the glob on the base name (base is filepath.Base(path)), or
\* the "dir/" prefix rule on the whole path.
PatternMatches(pattern, path, base) ==
    \/ Match(pattern, base)
    \/ /\ pattern # <<>>
       /\ pattern[Len(pattern)] = Separator
       /\ HasPrefix(path, TrimSuffix(pattern, <<Separator>>))

ShouldExclude(c, path) ==
    LET base == Base(path) IN
    \E i \in 1..Len(c.ExcludePatterns) : PatternMatches(c.ExcludePatterns[i], path, base)

\* ShouldInclude never looking at the include patterns.
ShouldIncludeIgnoringPatterns(c, path) == ~ShouldExclude(c, path)

ShouldInclude(c, path) ==
    IF Len(c.IncludePatterns) = 0
    THEN ~ShouldExclude(c, path)
    ELSE LET base == Base(path) IN
         \E i \in 1..Len(c.IncludePatterns) :
             PatternMatches(c.IncludePatterns[i], path, base)

getDefaultExcludePatterns ==
    << <<".", "g", "i", "t">>, <<".", "g", "i", "t", "/">>,
       <<".", "s", "v", "n">>, <<".", "s", "v", "n", "/">>,
       <<".", "h", "g">>, <<".", "h", "g", "/">>,
       <<".", "g", "i", "t", "i", "g", "n", "o", "r", "e">>,
       <<".", "g", "i", "t", "a", "t", "t", "r", "i", "b", "u", "t", "e", "s">>,
       <<".", "g", "i", "t", "m", "o", "d", "u", "l", "e", "s">>,
       <<"n", "o", "d", "e", "_", "m", "o", "d", "u", "l", "e", "s">>,
       <<"n", "o", "d", "e", "_", "m", "o", "d", "u", "l", "e", "s", "/">>,
       <<"v", "e", "n", "d", "o", "r">>, <<"v", "e", "n", "d", "o", "r", "/">>,
       <<"d", "i", "s", "t">>, <<"d", "i", "s", "t", "/">>,
       <<"b", "u", "i", "l", "d">>, <<"b", "u", "i", "l", "d", "/">>,
       <<"*", ".", "e", "x", "e">>, <<"*", ".", "d", "l", "l">>,
       <<"*", ".", "s", "o">>, <<"*", ".", "d", "y", "l", "i", "b">>,
       <<"*", ".", "o">>, <<"*", ".", "o", "b", "j">>,
       <<"*", ".", "a">>, <<"*", ".", "l", "i", "b">>,
       <<"*", ".", "j", "a", "r">>, <<"*", ".", "w", "a", "r">>,
       <<"*", ".", "e", "a", "r">>, <<"*", ".", "z", "i", "p">>,
       <<"*", ".", "t", "a", "r", ".", "g", "z">>, <<"*", ".", "r", "a", "r">>,
       <<".", "i", "d", "e", "a", "/">>, <<".", "v", "s", "c", "o", "d", "e", "/">>,
       <<".", "v", "s", "/">>,
       <<"*", ".", "s", "w", "p">>, <<"*", ".", "s", "w", "o">>,
       <<"*", ".", "t", "m", "p">>, <<"*", ".", "t", "e", "m", "p">>,
       <<".", "c", "a", "c", "h", "e", "/">>,
       <<".", "s", "a", "s", "s", "-", "c", "a", "c", "h", "e", "/">>,
       <<".", "D", "S", "_", "S", "t", "o", "r", "e">>,
       <<"T", "h", "u", "m", "b", "s", ".", "d", "b">>,
       <<"*", ".", "l", "o", "g">> >>

\* config.NewConfig, with the fields the Walker and the Renderer read.
NewConfig ==
    [ MaxFileSize     |-> DefaultMaxFileSize,
      IncludePatterns |-> <<>>,
      ExcludePatterns |-> getDefaultExcludePatterns,
      MaxDirDepth     |-> DefaultDirDepth,
      MaxFiles        |-> DefaultMaxFiles,
      MaxTotalSize    |-> DefaultMaxTotalSize ]


(***************************************************************************)
(* pkg/analyzer: the Walker                                                *)
(*                                                                         *)
(* A filesystem entry is a record                                          *)
(*   name     the entry's name                                             *)
(*   isDir    whether it is a directory                                    *)
(*   size     what FileInfo.Size() reports (len(bytes) for a file, a       *)
(*            system-dependent number for a directory)                     *)
(*   bytes    a file's bytes                                               *)
(*   entries  a directory's entries, sorted by name as os.ReadDir returns  *)
(*   statErr  os.Stat / DirEntry.Info fails on it                          *)
(*   listErr  os.ReadDir fails on it                                       *)
(*   openErr  os.Open fails on it                                          *)
(*   readErr  os.ReadFile fails on it                                      *)
(***************************************************************************)

NoNode == [IsDir |-> FALSE, Missing |-> TRUE]

FileTooLarge == <<"[", "F", "i", "l", "e", " ", "t", "o", "o", " ",
                  "l", "a", "r", "g", "e", "]">>
BinaryFile == <<"[", "B", "i", "n", "a", "r", "y", " ", "f", "i", "l", "e", "]">>
ErrorReadingFile == <<"[", "E", "r", "r", "o", "r", " ", "r", "e", "a", "d", "i", "n", "g",
                      " ", "f", "i", "l", "e", "]">>

NewFileSystemNode(path, info, depth) ==
    [ Name      |-> info.name,
      Path      |-> path,
      IsDir     |-> info.isDir,
      Size      |-> info.size,
      Depth     |-> depth,
      Content   |-> <<>>,
      Children  |-> <<>>,
      FileCount |-> 0,
      DirCount  |-> 0 ]

binaryExts ==
    { <<".", "e", "x", "e">>, <<".", "d", "l", "l">>, <<".", "s", "o">>,
      <<".", "d", "y", "l", "i", "b">>, <<".", "o", "b", "j">>, <<".", "o">>,
      <<".", "a">>, <<".", "l", "i", "b">>, <<".", "b", "i", "n">>,
      <<".", "d", "a", "t">>, <<".", "d", "b">>, <<".", "s", "q", "l", "i", "t", "e">>,
      <<".", "j", "p", "g">>, <<".", "j", "p", "e", "g">>, <<".", "p", "n", "g">>,
      <<".", "g", "i", "f">>, <<".", "p", "d", "f">>, <<".", "d", "o", "c">>,
      <<".", "d", "o", "c", "x">>, <<".", "x", "l", "s">>, <<".", "x", "l", "s", "x">>,
      <<".", "p", "p", "t">>, <<".", "p", "p", "t", "x">>, <<".", "z", "i", "p">>,
      <<".", "t", "a", "r">>, <<".", "g", "z">>, <<".", "r", "a", "r">>,
      <<".", "7", "z">> }

\* The size of the buffer isBinaryFile reads into.
SniffLen == 512

Min(a, b) == IF a < b THEN a ELSE b

\* isBinaryFile: a known extension, a failed open, a failed first read (which
\* includes the io.EOF that a read of an empty file returns), or a NUL among
\* the bytes read.
\* isBinaryFile without the scan for a NUL byte.
isBinaryFileByExtension(path, f) ==
    \/ ToLower(Ext(path)) \in binaryExts
    \/ f.openErr
    \/ Min(SniffLen, Len(f.bytes)) = 0

isBinaryFile(path, f) ==
    LET n == Min(SniffLen, Len(f.bytes))
    IN  \/ ToLower(Ext(path)) \in binaryExts
        \/ f.openErr
        \/ n = 0
        \/ \E i \in 1..n : f.bytes[i] = "NUL"

\* processFile: the node with its Content, and whether an error is returned.
processFile(node, c, f) ==
    IF node.Size > c.MaxFileSize
    THEN [node |-> [node EXCEPT !.Content = FileTooLarge], err |-> FALSE]
    ELSE IF isBinaryFile(node.Path, f)
    THEN [node |-> [node EXCEPT !.Content = BinaryFile], err |-> FALSE]
    ELSE IF f.readErr
    THEN [node |-> [node EXCEPT !.Content = ErrorReadingFile], err |-> TRUE]
    ELSE [node |-> [node EXCEPT !.Content = f.bytes], err |-> FALSE]

\* Exchange of two elements of a sequence.
Swap(s, i, j) == [s EXCEPT ![i] = s[j], ![j] = s[i]]

\* sortInner comparing the names as they are, without strings.ToLower.
RECURSIVE sortInnerCaseSensitive(_, _, _)
sortInnerCaseSensitive(ch, i, j) ==
    IF j > Len(ch) THEN ch
    ELSE IF ~ch[i].IsDir /\ ch[j].IsDir
    THEN sortInnerCaseSensitive(Swap(ch, i, j), i, j + 1)
    ELSE IF /\ ch[i].IsDir = ch[j].IsDir
            /\ StrGreater(ch[i].Name, ch[j].Name)
    THEN sortInnerCaseSensitive(Swap(ch, i, j), i, j + 1)
    ELSE sortInnerCaseSensitive(ch, i, j + 1)

\* The inner loop of sortChildren, from j on, for a fixed i.
RECURSIVE sortInner(_, _, _)
sortInner(ch, i, j) ==
    IF j > Len(ch) THEN ch
    ELSE IF ~ch[i].IsDir /\ ch[j].IsDir
    THEN sortInner(Swap(ch, i, j), i, j + 1)
    ELSE IF /\ ch[i].IsDir = ch[j].IsDir
            /\ StrGreater(ToLower(ch[i].Name), ToLower(ch[j].Name))
    THEN sortInner(Swap(ch, i, j), i, j + 1)
    ELSE sortInner(ch, i, j + 1)

\* The outer loop of sortChildren, from i on.
RECURSIVE sortOuter(_, _)
sortOuter(ch, i) ==
    IF i > Len(ch) - 1 THEN ch
    ELSE sortOuter(sortInner(ch, i, i + 1), i + 1)

sortChildren(node) ==
    IF Len(node.Children) <= 1 THEN node
    ELSE [node EXCEPT !.Children = sortOuter(node.Children, 1)]

\* processDirectory(node, c, stats, d) on the directory d of the filesystem:
\* the node, the traversal-wide stats and whether an error is returned.
\* processEntries is its loop over entries[i..].
RECURSIVE processDirectory(_, _, _, _)
RECURSIVE processEntries(_, _, _, _, _)
\* The loop of processDirectory testing the include patterns on files only.
RECURSIVE processEntriesFilesFiltered(_, _, _, _, _)
processEntriesFilesFiltered(node, c, stats, entries, i) ==
    IF i > Len(entries) THEN [node |-> node, stats |-> stats]
    ELSE
      LET entry == entries[i]
          entryPath == Join(node.Path, entry.name)
          skip == processEntriesFilesFiltered(node, c, stats, entries, i + 1)
      IN
      IF (~entry.isDir /\ ~ShouldInclude(c, entryPath)) \/ ShouldExclude(c, entryPath)
      THEN skip
      ELSE IF entry.statErr THEN skip
      ELSE
        LET child == NewFileSystemNode(entryPath, entry, node.Depth + 1) IN
        IF entry.isDir
        THEN LET r == processDirectory(child, c, stats, entry) IN
             IF r.err THEN processEntriesFilesFiltered(node, c, r.stats, entries, i + 1)
             ELSE processEntriesFilesFiltered(
                    [node EXCEPT
                       !.DirCount = @ + r.node.DirCount + 1,
                       !.FileCount = @ + r.node.FileCount,
                       !.Size = @ + r.node.Size,
                       !.Children = Append(@, r.node)],
                    c, r.stats, entries, i + 1)
        ELSE IF stats.TotalFiles >= c.MaxFiles THEN skip
        ELSE IF stats.TotalSize + entry.size > c.MaxTotalSize THEN skip
        ELSE IF entry.size > c.MaxFileSize THEN skip
        ELSE LET r == processFile(child, c, entry) IN
             IF r.err THEN skip
             ELSE processEntriesFilesFiltered(
                    [node EXCEPT
                       !.FileCount = @ + 1,
                       !.Size = @ + r.node.Size,
                       !.Children = Append(@, r.node)],
                    c,
                    [stats EXCEPT
                       !.TotalFiles = @ + 1,
                       !.TotalSize = @ + r.node.Size],
                    entries, i + 1)

processEntries(node, c, stats, entries, i) ==
    IF i > Len(entries) THEN [node |-> node, stats |-> stats]
    ELSE
      LET entry == entries[i]
          entryPath == Join(node.Path, entry.name)
          skip == processEntries(node, c, stats, entries, i + 1)
      IN
      IF ~ShouldInclude(c, entryPath) \/ ShouldExclude(c, entryPath) THEN skip
      ELSE IF entry.statErr THEN skip
      ELSE
        LET child == NewFileSystemNode(entryPath, entry, node.Depth + 1) IN
        IF entry.isDir
        THEN LET r == processDirectory(child, c, stats, entry) IN
             IF r.err THEN processEntries(node, c, r.stats, entries, i + 1)
             ELSE processEntries(
                    [node EXCEPT
                       !.DirCount = @ + r.node.DirCount + 1,
                       !.FileCount = @ + r.node.FileCount,
                       !.Size = @ + r.node.Size,
                       !.Children = Append(@, r.node)],
                    c, r.stats, entries, i + 1)
        ELSE IF stats.TotalFiles >= c.MaxFiles THEN skip
        ELSE IF stats.TotalSize + entry.size > c.MaxTotalSize THEN skip
        ELSE IF entry.size > c.MaxFileSize THEN skip
        ELSE LET r == processFile(child, c, entry) IN
             IF r.err THEN skip
             ELSE processEntries(
                    [node EXCEPT
                       !.FileCount = @ + 1,
                       !.Size = @ + r.node.Size,
                       !.Children = Append(@, r.node)],
                    c,
                    [stats EXCEPT
                       !.TotalFiles = @ + 1,
                       !.TotalSize = @ + r.node.Size],
                    entries, i + 1)

\* processDirectory counting the budgets per directory: the loop starts from
\* zeroed stats instead of the traversal-wide ones.
processDirectoryOwnStats(node, c, stats, d) ==
    IF node.Depth >= c.MaxDirDepth
    THEN [node |-> node, stats |-> stats, err |-> FALSE]
    ELSE IF d.listErr
    THEN [node |-> node, stats |-> stats, err |-> TRUE]
    ELSE LET r == processEntries(node, c, [TotalFiles |-> 0, TotalSize |-> 0],
                                 d.entries, 1) IN
         [node |-> sortChildren(r.node), stats |-> r.stats, err |-> FALSE]

\* processDirectory stopping one level later: it tests node.Depth > MaxDirDepth.
processDirectoryDepthAbove(node, c, stats, d) ==
    IF node.Depth > c.MaxDirDepth
    THEN [node |-> node, stats |-> stats, err |-> FALSE]
    ELSE IF d.listErr
    THEN [node |-> node, stats |-> stats, err |-> TRUE]
    ELSE LET r == processEntries(node, c, stats, d.entries, 1) IN
         [node |-> sortChildren(r.node), stats |-> r.stats, err |-> FALSE]

processDirectory(node, c, stats, d) ==
    IF node.Depth >= c.MaxDirDepth
    THEN [node |-> node, stats |-> stats, err |-> FALSE]
    ELSE IF d.listErr
    THEN [node |-> node, stats |-> stats, err |-> TRUE]
    ELSE LET r == processEntries(node, c, stats, d.entries, 1) IN
         [node |-> sortChildren(r.node), stats |-> r.stats, err |-> FALSE]

\* The working directory filepath.Abs resolves a relative source against.
Cwd == <<"/", "w">>

\* filepath.Abs of a relative, clean source path.
Abs(path) == IF HasPrefix(path, <<Separator>>) THEN path ELSE Join(Cwd, path)

\* ProcessPath(source, c) on the filesystem entry f that source names: the
\* returned node (NoNode for nil) and whether the returned error is non-nil.
ProcessPath(source, c, f) ==
    IF f.statErr THEN [node |-> NoNode, err |-> TRUE]
    ELSE IF f.absErr THEN [node |-> NoNode, err |-> TRUE]
    ELSE LET n == NewFileSystemNode(Abs(source), [f EXCEPT !.name = Base(source)], 0)
             stats == [TotalFiles |-> 0, TotalSize |-> 0]
         IN  IF f.isDir
             THEN LET r == processDirectory(n, c, stats, f)
                  IN  [node |-> r.node, err |-> r.err]
             ELSE processFile(n, c, f)

(***************************************************************************)
(* pkg/formatter: the Renderer                                             *)
(*                                                                         *)
(* The Summary is kept as its values (the rendering of a number by %d,     *)
(* formatSize or formatTokenCount is not modelled); the directory          *)
(* structure is the sequence of its lines and the file contents the        *)
(* sequence of its blocks, a block being its header line and its content.  *)
(***************************************************************************)

NoResult == [Missing |-> TRUE]

RECURSIVE countAllCharacters(_)
RECURSIVE countChildren(_, _)
\* The loop of countAllCharacters over children[i..].
countChildren(children, i) ==
    IF i > Len(children) THEN 0
    ELSE (IF ~children[i].IsDir THEN Len(children[i].Content)
          ELSE countAllCharacters(children[i]))
         + countChildren(children, i + 1)

countAllCharacters(node) ==
    IF ~node.IsDir THEN Len(node.Content)
    ELSE countChildren(node.Children, 1)

estimateTokens(node) ==
    IF node.IsDir THEN countAllCharacters(node) \div 4
    ELSE Len(node.Content) \div 4

\* strings.Count(s, "\n").
CountNewlines(s) == Cardinality({i \in 1..Len(s) : s[i] = "\n"})

\* formatSummary: the values it writes; Tokens is the sequence of the
\* "Estimated tokens" lines, empty when the line is left out.
formatSummary(node, c) ==
    LET tokenCount == estimateTokens(node) IN
    [ Kind   |-> IF node.IsDir THEN "Directory" ELSE "File",
      Name   |-> node.Name,
      Files  |-> IF node.IsDir THEN <<node.FileCount>> ELSE <<>>,
      Size   |-> node.Size,
      Lines  |-> IF node.IsDir THEN <<>> ELSE <<CountNewlines(node.Content) + 1>>,
      Tokens |-> IF tokenCount > 0 THEN <<tokenCount>> ELSE <<>> ]

\* buildTree: the lines of the subtree of node; a connector or an indentation
\* step is one element of a line.
RECURSIVE buildTree(_, _, _)
RECURSIVE buildChildren(_, _, _)
buildChildren(children, childPrefix, i) ==
    IF i > Len(children) THEN <<>>
    ELSE buildTree(children[i], childPrefix, i = Len(children))
         \o buildChildren(children, childPrefix, i + 1)

buildTree(node, prefix, isLast) ==
    LET currentPrefix == IF isLast THEN "+-- " ELSE "|-- "
        name == IF node.IsDir THEN node.Name \o <<"/">> ELSE node.Name
        line == prefix \o <<currentPrefix>> \o name
        childPrefix == prefix \o <<IF isLast THEN "    " ELSE "|   ">>
    IN  IF ~node.IsDir \/ Len(node.Children) = 0 THEN <<line>>
        ELSE <<line>> \o buildChildren(node.Children, childPrefix, 1)

formatDirectoryStructure(node) ==
    IF node.IsDir THEN buildTree(node, <<>>, TRUE)
    ELSE << <<"+-- ">> \o node.Name >>

FileLabel == <<"F", "I", "L", "E", ":", " ">>

\* formatFileContent: the block of one file, its header line and its content.
formatFileContent(node) ==
    LET base == Base(Dir(node.Path))
        relPath == IF base = <<".">> THEN <<>> ELSE base \o <<"/">>
    IN  [ Header  |-> FileLabel \o relPath \o node.Name,
          Content |-> node.Content ]

RECURSIVE formatDirectoryContent(_)
RECURSIVE formatChildrenContent(_, _)
formatChildrenContent(children, i) ==
    IF i > Len(children) THEN <<>>
    ELSE formatDirectoryContent(children[i]) \o formatChildrenContent(children, i + 1)

formatDirectoryContent(node) ==
    IF ~node.IsDir THEN <<formatFileContent(node)>>
    ELSE formatChildrenContent(node.Children, 1)

formatFileContents(node) ==
    IF ~node.IsDir THEN <<formatFileContent(node)>>
    ELSE formatDirectoryContent(node)

FormatResults(node, c) ==
    [ Summary            |-> formatSummary(node, c),
      DirectoryStructure |-> formatDirectoryStructure(node),
      FileContents       |-> formatFileContents(node) ]

(***************************************************************************)
(* The filesystems and configurations the model is checked on              *)
(***************************************************************************)

\* Bounds of the model.
MaxEntries == 2     \* entries of one directory
MaxLimit == 2       \* largest non-default value of a limit of the Config

File(name, bytes) ==
    [ name |-> name, isDir |-> FALSE, size |-> Len(bytes), bytes |-> bytes,
      entries |-> <<>>, statErr |-> FALSE, listErr |-> FALSE, openErr |-> FALSE,
      readErr |-> FALSE, absErr |-> FALSE ]

Directory(name, size, entries) ==
    [ name |-> name, isDir |-> TRUE, size |-> size, bytes |-> <<>>,
      entries |-> entries, statErr |-> FALSE, listErr |-> FALSE, openErr |-> FALSE,
      readErr |-> FALSE, absErr |-> FALSE ]

\* What FileInfo.Size() may report for a directory: it is system-dependent
\* (0 on some systems, a block size on others).
DirSizes == {0, 4096}

FileAGo      == File(<<"a", ".", "g", "o">>, <<"x", "x", "\n", "x", "x">>)
FileUpperB   == File(<<"B">>, <<"x">>)
FileLowerB   == File(<<"b">>, <<"x", "x">>)
FileReadErr  == [File(<<"e", ".", "m", "d">>, <<"x", "x", "x">>) EXCEPT !.readErr = TRUE]
FileStatErr  == [File(<<"s">>, <<"x">>) EXCEPT !.statErr = TRUE]
FileOpenErr  == [File(<<"o">>, <<"x">>) EXCEPT !.openErr = TRUE]
FileWithNul  == File(<<"n">>, <<"x", "NUL">>)
FileEmpty    == File(<<"z">>, <<>>)
FileNulGo    == File(<<"n", ".", "g", "o">>, <<"NUL", "x">>)
FileLog      == File(<<"k", ".", "l", "o", "g">>, <<"x", "x", "x", "x">>)

RootPool == { FileAGo, FileUpperB, FileLowerB, FileReadErr, FileStatErr,
              FileOpenErr, FileWithNul, FileEmpty, FileLog }
SubPool == { FileAGo, FileReadErr, FileLog }
InnerPool == { FileAGo, FileLowerB }

DirNames == { <<"d">>, <<".", "v", "s">>, <<"l", "i", "b">> }
InnerName == <<"i", "n">>
RootName == <<"r">>

\* The entries of a directory in the order os.ReadDir returns them: sorted by
\* file name.
RECURSIVE ReadDirOrder(_)
ReadDirOrder(S) ==
    IF S = {} THEN <<>>
    ELSE LET first == CHOOSE e \in S : \A o \in S \ {e} : StrLess(e.name, o.name)
         IN  <<first>> \o ReadDirOrder(S \ {first})

\* The sets of at most n entries of a pool.
UpTo(pool, n) == { S \in SUBSET pool : Cardinality(S) <= n }

\* Innermost directories: at most one file.
InnerDirs(ds) ==
    { Directory(InnerName, ds, ReadDirOrder(S)) : S \in UpTo(InnerPool, 1) }

\* No inner directory, or one.
InnerChoice(ds) == {{}} \cup { {i} : i \in InnerDirs(ds) }

\* Subdirectories of the root: files and at most one inner directory, or a
\* directory that cannot be stat-ed or listed.  The directory named "d" takes
\* every content, the other names take one content each way.
SubDirs(ds) ==
    { Directory(<<"d">>, ds, ReadDirOrder(S \cup I)) :
        S \in UpTo(SubPool, MaxEntries), I \in InnerChoice(ds) }
    \cup { [Directory(<<"d">>, ds, <<>>) EXCEPT !.statErr = TRUE],
           [Directory(<<"d">>, ds, ReadDirOrder({FileAGo})) EXCEPT !.listErr = TRUE] }
    \cup { Directory(n, ds, ReadDirOrder({FileAGo} \cup I)) :
             n \in DirNames, I \in {{}, {Directory(InnerName, ds, ReadDirOrder({FileLowerB}))}} }

\* The scanned entry: a file, a flat directory, a directory with one
\* subdirectory, or an entry on which ProcessPath itself fails.
FileRoots == RootPool \cup { FileNulGo, [FileAGo EXCEPT !.absErr = TRUE] }

FlatRoots(ds) ==
    { Directory(RootName, ds, ReadDirOrder(S)) : S \in UpTo(RootPool, MaxEntries) }

DeepRoots(ds) ==
    { Directory(RootName, ds, ReadDirOrder(S \cup {d})) :
        S \in UpTo(InnerPool, 1), d \in SubDirs(ds) }

\* Two files whose names differ only in case, listed before a directory.
TieRoots(ds) ==
    { Directory(RootName, ds,
                ReadDirOrder({FileUpperB, FileLowerB, Directory(<<"d">>, ds, <<>>)})) }

FailingRoots(ds) ==
    { [Directory(RootName, ds, ReadDirOrder({FileAGo})) EXCEPT !.listErr = TRUE],
      [Directory(RootName, ds, ReadDirOrder({FileAGo})) EXCEPT !.absErr = TRUE] }

FileSystems ==
    FileRoots \cup
    UNION { FlatRoots(ds) \cup DeepRoots(ds) \cup TieRoots(ds) \cup FailingRoots(ds) :
            ds \in DirSizes }

\* The values of a limit: small ones and the default.
Limits(default) == (0..MaxLimit) \cup {default}

LibSlash == <<"l", "i", "b", "/">>
StarGo == <<"*", ".", "g", "o">>
AStar == <<"a", "*">>
CwdSlash == <<"/", "w", "/">>
NameD == <<"d">>

\* The pattern sets: the defaults, the defaults with a caller's "lib/"
\* appended (main.go appends -e to the defaults), and include patterns.
PatternSets ==
    { [inc |-> <<>>, exc |-> getDefaultExcludePatterns],
      [inc |-> <<>>, exc |-> Append(getDefaultExcludePatterns, LibSlash)],
      [inc |-> <<StarGo>>, exc |-> getDefaultExcludePatterns],
      [inc |-> <<StarGo, NameD>>, exc |-> getDefaultExcludePatterns],
      [inc |-> <<>>, exc |-> <<>>] }

AllConfigs ==
    { [ MaxFileSize     |-> mfs,
        IncludePatterns |-> ps.inc,
        ExcludePatterns |-> ps.exc,
        MaxDirDepth     |-> mdd,
        MaxFiles        |-> mf,
        MaxTotalSize    |-> mts ] :
      mfs \in Limits(DefaultMaxFileSize), mdd \in Limits(DefaultDirDepth),
      mf \in Limits(DefaultMaxFiles), mts \in Limits(DefaultMaxTotalSize),
      ps \in PatternSets }

\* The number of fields of a Config that differ from NewConfig's.
Deviation(c) ==
    Cardinality({ k \in {"MaxFileSize", "MaxDirDepth", "MaxFiles", "MaxTotalSize",
                         "IncludePatterns", "ExcludePatterns"} : c[k] # NewConfig[k] })

\* The configurations: NewConfig with at most two settings changed.
Configs == { c \in AllConfigs : Deviation(c) <= 2 }

(***************************************************************************)
(* The program: main.go calls ProcessPath, then FormatResults              *)
(***************************************************************************)

NoProbe == <<>>
NoDecision == [Missing |-> TRUE]

Init ==
    /\ fs \in FileSystems
    /\ cfg \in Configs
    /\ pc = "start"
    /\ root = NoNode
    /\ err = FALSE
    /\ result = NoResult
    /\ probe = NoProbe
    /\ decision = NoDecision

\* main.go: node, err := analyzer.ProcessPath(cfg.Source, cfg)
MainProcess ==
    /\ pc = "start"
    /\ LET r == ProcessPath(fs.name, cfg, fs) IN
       /\ root' = r.node
       /\ err' = r.err
    /\ pc' = "processed"
    /\ UNCHANGED <<fs, cfg, result, probe, decision>>

\* main.go: result := formatter.FormatResults(node, cfg), reached only when
\* ProcessPath returned no error.
MainFormat ==
    /\ pc = "processed"
    /\ ~err
    /\ result' = FormatResults(root, cfg)
    /\ pc' = "formatted"
    /\ UNCHANGED <<fs, cfg, root, err, probe, decision>>

Next == MainProcess \/ MainFormat

Spec == Init /\ [][Next]_vars

(***************************************************************************)
(* The Selector on its own: ShouldInclude and ShouldExclude asked about a  *)
(* path under a configuration of include and exclude patterns              *)
(***************************************************************************)

MaxPatterns == 2    \* patterns in one pattern list

PatternPool == { StarGo, LibSlash, AStar, CwdSlash }

PatternLists ==
    UNION { [1..n -> PatternPool] : n \in 0..MaxPatterns }

ProbePaths ==
    { <<"/", "w", "/", "r", "/", "a", ".", "g", "o">>,
      <<"/", "w", "/", "r", "/", "b">>,
      <<"/", "w", "/", "r", "/", "l", "i", "b">>,
      <<"/", "w", "/", "r", "/", "l", "i", "b", "/", "b">>,
      <<"l", "i", "b", "/", "a", ".", "g", "o">> }

SelInit ==
    /\ fs = FileEmpty
    /\ cfg \in { [NewConfig EXCEPT !.IncludePatterns = inc, !.ExcludePatterns = exc] :
                   inc \in PatternLists, exc \in PatternLists }
    /\ pc = "ask"
    /\ root = NoNode
    /\ err = FALSE
    /\ result = NoResult
    /\ probe \in ProbePaths
    /\ decision = NoDecision

\* A caller asks both questions about the path, as processDirectory does.
SelectorDecide ==
    /\ pc = "ask"
    /\ decision' = [ included |-> ShouldInclude(cfg, probe),
                     excluded |-> ShouldExclude(cfg, probe) ]
    /\ pc' = "decided"
    /\ UNCHANGED <<fs, cfg, root, err, result, probe>>

SelNext == SelectorDecide

SelSpec == SelInit /\ [][SelNext]_vars

(***************************************************************************)
(* sortChildren on its own: a directory node whose children were appended  *)
(* in an arbitrary order                                                   *)
(***************************************************************************)

MaxChildren == 3    \* children of the node that is sorted

SortNames == { <<"a">>, <<"B">>, <<"b">>, <<"C">> }

SortPool ==
    { File(n, <<"x">>) : n \in SortNames } \cup { Directory(n, 0, <<>>) : n \in SortNames }

\* The listings: sequences of entries with distinct names, in any order.
Listings ==
    { l \in UNION { [1..n -> SortPool] : n \in 0..MaxChildren } :
        \A i, j \in 1..Len(l) : i # j => l[i].name # l[j].name }

\* The node of a directory after the loop of processDirectory appended one
\* child per entry, before sortChildren.
Appended(d) ==
    LET n == NewFileSystemNode(Abs(d.name), d, 0) IN
    [n EXCEPT !.Children =
        [i \in 1..Len(d.entries) |->
            NewFileSystemNode(Join(n.Path, d.entries[i].name), d.entries[i], 1)]]

SortInit ==
    /\ fs \in { Directory(RootName, 0, l) : l \in Listings }
    /\ cfg = NewConfig
    /\ pc = "appended"
    /\ root = Appended(fs)
    /\ err = FALSE
    /\ result = NoResult
    /\ probe = NoProbe
    /\ decision = NoDecision

\* processDirectory: sortChildren(node)
SortChildren ==
    /\ pc = "appended"
    /\ root' = sortChildren(root)
    /\ pc' = "sorted"
    /\ UNCHANGED <<fs, cfg, err, result, probe, decision>>

SortNext == SortChildren

SortSpec == SortInit /\ [][SortNext]_vars

(***************************************************************************)
(* Properties                                                              *)
(***************************************************************************)

\* ProcessPath has returned a tree (a node, whatever the error).
Returned == pc \in {"processed", "formatted"} /\ root # NoNode

\* ProcessPath has returned the tree of a directory walk.
Walked == Returned /\ root.IsDir

\* Every node of a tree, and its directory and file nodes.
RECURSIVE NodesOf(_)
NodesOf(n) == {n} \cup UNION { NodesOf(n.Children[i]) : i \in 1..Len(n.Children) }

DirNodesOf(n) == { d \in NodesOf(n) : d.IsDir }
FileNodesOf(n) == { f \in NodesOf(n) : ~f.IsDir }

\* The sum of g over the elements of a sequence.
RECURSIVE SumOver(_, _, _)
SumOver(g(_), seq, i) ==
    IF i > Len(seq) THEN 0 ELSE g(seq[i]) + SumOver(g, seq, i + 1)

\* The sum of the sizes of all file nodes of a tree.
RECURSIVE TotalFileSize(_)
TotalFileSize(n) ==
    IF ~n.IsDir THEN n.Size ELSE SumOver(TotalFileSize, n.Children, 1)

\* The path passes the test of processDirectory's loop.
Selected(c, path) == ShouldInclude(c, path) /\ ~ShouldExclude(c, path)

\* C1 (as claimed): exclusion dominance of the Selector: whenever
\* ShouldExclude answers true for a path, ShouldInclude answers false for it,
\* whatever the include and exclude patterns are.
C1_ExclusionDominance ==
    pc = "decided" => (decision.excluded => ~decision.included)

\* The children of d have the directories before the files and, within each
\* kind, the lower-cased names in non-decreasing byte order.
ChildrenOrdered(d) ==
    \A i, j \in 1..Len(d.Children) :
        i < j =>
            LET a == d.Children[i]
                b == d.Children[j]
            IN  /\ ~(~a.IsDir /\ b.IsDir)
                /\ a.IsDir = b.IsDir => ~StrLess(ToLower(b.Name), ToLower(a.Name))

\* C3: after sortChildren, whatever the order the children were appended in,
\* all directory children come before all file children and, within each
\* kind, the lower-cased names are in non-decreasing byte order; this holds
\* of every directory node of the tree.
C3_OrderingInvariant ==
    (pc \in {"sorted", "processed", "formatted"} /\ root # NoNode)
        => \A d \in DirNodesOf(root) : ChildrenOrdered(d)

\* C3 witness: a listing that was out of order (a file before a directory and
\* names out of case-insensitive order) has been sorted.
C3_Witness ==
    /\ pc = "sorted"
    /\ Len(root.Children) = MaxChildren
    /\ ~fs.entries[1].isDir /\ fs.entries[MaxChildren].isDir
    /\ \E i \in 1..(MaxChildren - 1) :
          /\ fs.entries[i].isDir = fs.entries[i + 1].isDir
          /\ StrLess(ToLower(fs.entries[i + 1].name), ToLower(fs.entries[i].name))
    /\ root.Children # Appended(fs).Children

\* What a child adds to its parent's Size and FileCount.
ChildSize(n) == n.Size
ChildFiles(n) == IF n.IsDir THEN n.FileCount ELSE 1

\* C2 (as claimed): after ProcessPath returns for a directory root, every
\* directory node has Size equal to the sum of its children's Size and
\* FileCount equal to the sum over its children of 1 for a file and of
\* FileCount for a directory.
C2_AggregateInvariant ==
    Walked =>
        \A d \in DirNodesOf(root) :
            /\ d.Size = SumOver(ChildSize, d.Children, 1)
            /\ d.FileCount = SumOver(ChildFiles, d.Children, 1)

\* The file entries of directory d (at path, with a node of the given depth)
\* and of its subdirectories that the walk could take on their own: selected,
\* stat-able, not over the single-file limit nor alone over the total-size
\* limit, readable, under listable selected directories within the depth limit.
RECURSIVE EligibleFiles(_, _, _, _)
EligibleFiles(c, path, d, depth) ==
    IF depth >= c.MaxDirDepth \/ d.listErr THEN 0
    ELSE LET count(e) ==
                 IF ~Selected(c, Join(path, e.name)) \/ e.statErr THEN 0
                 ELSE IF e.isDir THEN EligibleFiles(c, Join(path, e.name), e, depth + 1)
                 ELSE IF /\ e.size <= c.MaxFileSize
                         /\ e.size <= c.MaxTotalSize
                         /\ ~processFile(NewFileSystemNode(Join(path, e.name), e, depth + 1),
                                         c, e).err
                      THEN 1 ELSE 0
         IN  SumOver(count, d.entries, 1)

\* C4: after a directory walk the number of file nodes of the whole tree
\* equals root.FileCount and is at most MaxFiles, and the sizes of all file
\* nodes sum to at most MaxTotalSize; with MaxFiles = 1 and two or more
\* eligible files anywhere in the tree there is exactly one file node.
C4_GlobalBudgets ==
    Walked =>
        /\ Cardinality(FileNodesOf(root)) = root.FileCount
        /\ root.FileCount <= cfg.MaxFiles
        /\ TotalFileSize(root) <= cfg.MaxTotalSize
        /\ (cfg.MaxFiles = 1 /\ EligibleFiles(cfg, Abs(fs.name), fs, 0) >= 2)
              => root.FileCount = 1

\* C4 witness: the file budget cut a walk with eligible files in two
\* directories, and the size budget cut another.
C4_Witness ==
    /\ Walked
    /\ \/ /\ cfg.MaxFiles = 1
          /\ root.FileCount = 1
          /\ EligibleFiles(cfg, Abs(fs.name), fs, 0) >= 2
          /\ \E i \in 1..Len(fs.entries) :
                /\ fs.entries[i].isDir
                /\ EligibleFiles(cfg, Join(Abs(fs.name), fs.entries[i].name),
                                 fs.entries[i], 1) >= 1
       \/ /\ cfg.MaxFiles = DefaultMaxFiles
          /\ cfg.MaxTotalSize <= MaxLimit
          /\ root.FileCount >= 1
          /\ EligibleFiles(cfg, Abs(fs.name), fs, 0) > root.FileCount

\* The children of node n named name.
ChildrenNamed(n, name) ==
    { i \in 1..Len(n.Children) : n.Children[i].Name = name }

\* C5 (as claimed): in a directory walk, a selected, stat-able file entry of
\* the root whose size exceeds MaxFileSize, met while the file-count and
\* total-size budgets are not exhausted (here: both at their defaults), has a
\* file node among the root's children whose Content is the "file too large"
\* sentinel.
C5_OversizedRecorded ==
    (Walked /\ ~err /\ cfg.MaxDirDepth > 0
       /\ cfg.MaxFiles = DefaultMaxFiles /\ cfg.MaxTotalSize = DefaultMaxTotalSize)
    => \A i \in 1..Len(fs.entries) :
         LET e == fs.entries[i] IN
         (/\ ~e.isDir
          /\ Selected(cfg, Join(root.Path, e.name))
          /\ ~e.statErr
          /\ e.size > cfg.MaxFileSize)
         => \E k \in ChildrenNamed(root, e.name) :
               /\ ~root.Children[k].IsDir
               /\ root.Children[k].Content = FileTooLarge

\* The characters the claim counts: the Content of every file node whose size
\* does not exceed MaxFileSize.
CountedCharacters(c, n) ==
    LET chars(f) == IF f.Size > c.MaxFileSize THEN 0 ELSE Len(f.Content)
        RECURSIVE total(_)
        total(m) == IF ~m.IsDir THEN chars(m) ELSE SumOver(total, m.Children, 1)
    IN  total(n)

\* C6 (as claimed): for a file root and for a directory root, the token
\* estimate of the summary is floor(C / 4), C being the characters of the
\* file contents with 0 for a file over MaxFileSize, and the estimate line is
\* left out when the estimate is 0.
C6_TokenEstimate ==
    pc = "formatted" =>
        LET estimate == CountedCharacters(cfg, root) \div 4 IN
        result.Summary.Tokens = IF estimate > 0 THEN <<estimate>> ELSE <<>>

\* The directory entries of the scanned root that the walk selects and can stat.
ListedSubdirs ==
    { i \in 1..Len(fs.entries) :
        /\ fs.entries[i].isDir
        /\ Selected(cfg, Join(Abs(fs.name), fs.entries[i].name))
        /\ ~fs.entries[i].statErr }

\* The subdirectory entry i of the scanned root is in the tree as a child at
\* depth 1 without children and without files counted.
ListedWithoutChildren(i) ==
    \E k \in ChildrenNamed(root, fs.entries[i].name) :
        /\ root.Children[k].IsDir
        /\ root.Children[k].Depth = 1
        /\ root.Children[k].Children = <<>>
        /\ root.Children[k].FileCount = 0

\* C7 (as claimed): with maximum depth 0 on a root directory that has one
\* selected subdirectory containing a file, the root of the result has that
\* subdirectory as a child at depth 1, the child has no children and counts
\* no file.
C7_DepthZeroListsSubdir ==
    (Walked /\ cfg.MaxDirDepth = 0 /\ ~fs.listErr)
    => \A i \in ListedSubdirs :
          (\E j \in 1..Len(fs.entries[i].entries) : ~fs.entries[i].entries[j].isDir)
             => ListedWithoutChildren(i)

\* C7 (amended): with maximum depth N every node of the result has depth at
\* most N, and a directory node whose depth has reached N is in the tree
\* without children and with FileCount 0: only directories above depth N have
\* their entries enumerated.  With N = 1 every selected, stat-able
\* subdirectory of a listable root is a child of the root at depth 1 with no
\* children and no file counted; with N = 0 the root has no children.
C7_DepthLimit ==
    Walked =>
        /\ \A n \in NodesOf(root) :
              /\ n.Depth = 0 \/ n.Depth <= cfg.MaxDirDepth
              /\ (n.IsDir /\ n.Depth >= cfg.MaxDirDepth)
                    => (n.Children = <<>> /\ n.FileCount = 0)
        /\ (cfg.MaxDirDepth = 1 /\ ~fs.listErr)
              => \A i \in ListedSubdirs : ListedWithoutChildren(i)
        /\ cfg.MaxDirDepth = 0 => root.Children = <<>>

\* C7 witness: with N = 1 a subdirectory that holds a file is listed under the
\* root without it.
C7_Witness ==
    /\ Walked
    /\ cfg.MaxDirDepth = 1
    /\ \E i \in ListedSubdirs :
          /\ \E j \in 1..Len(fs.entries[i].entries) : ~fs.entries[i].entries[j].isDir
          /\ ListedWithoutChildren(i)

\* C8 (as claimed): ProcessPath returns a non-nil error only when the source
\* cannot be stat-ed or resolved or when listing the root directory fails;
\* a failure to read a file's content, also when the file is the scanned
\* root, never makes it return an error.
C8_ErrorPropagation ==
    (pc \in {"processed", "formatted"} /\ err)
        => \/ fs.statErr
           \/ fs.absErr
           \/ fs.isDir /\ fs.listErr

\* The headers the claim expects, in the order of formatDirectoryContent: for
\* the files of directory d, the prefix is empty when d is the scan root and
\* d's name followed by "/" otherwise.
RECURSIVE ExpectedHeaders(_, _)
ExpectedHeaders(d, isRoot) ==
    LET RECURSIVE from(_)
        from(i) ==
            IF i > Len(d.Children) THEN <<>>
            ELSE (IF d.Children[i].IsDir THEN ExpectedHeaders(d.Children[i], FALSE)
                  ELSE << FileLabel
                          \o (IF isRoot THEN <<>> ELSE d.Name \o <<"/">>)
                          \o d.Children[i].Name >>)
                 \o from(i + 1)
    IN  from(1)

\* C9 (as claimed): every file block's header is "FILE: " followed by the
\* immediate parent directory's name and "/" when the parent is below the scan
\* root, by nothing when the parent is the scan root, and by the file's name.
C9_HeaderPath ==
    (pc = "formatted" /\ root.IsDir)
        => [i \in 1..Len(result.FileContents) |-> result.FileContents[i].Header]
             = ExpectedHeaders(root, TRUE)

\* The name is the target of a directory pattern "name/" of the exclude list.
DirPatternNames(c) ==
    { TrimSuffix(c.ExcludePatterns[i], <<Separator>>) :
        i \in { k \in 1..Len(c.ExcludePatterns) :
                  HasSuffix(c.ExcludePatterns[k], <<Separator>>) } }

\* C10 (as claimed): for every exclude pattern "name/" in effect, no directory
\* named name inside the scanned tree has a node in the result.
C10_DirPatternExclusion ==
    Walked =>
        \A n \in DirNodesOf(root) \ {root} : n.Name \notin DirPatternNames(cfg)

\* Some pattern of the list matches the path, by the glob on the base name
\* or by the "dir/" prefix rule.
MatchesSome(patterns, path) ==
    \E i \in 1..Len(patterns) : PatternMatches(patterns[i], path, Base(path))

\* The entry of the scanned filesystem f (at fpath) that lies at path.
RECURSIVE EntryAt(_, _, _)
EntryAt(f, fpath, path) ==
    IF fpath = path THEN f
    ELSE LET under(i) == Join(fpath, f.entries[i].name)
             k == CHOOSE i \in 1..Len(f.entries) :
                     under(i) = path \/ HasPrefix(path, under(i) \o <<Separator>>)
         IN  EntryAt(f.entries[k], under(k), path)

\* The filesystem entry a node of the result was made from.
SourceOf(n) == EntryAt(fs, Abs(fs.name), n.Path)

\* C11: after a directory walk every node other than the root has a path that
\* matches no exclude pattern and, when there are include patterns, matches
\* one of them; an entry of the root that fails the test has no node, and the
\* root's FileCount and DirCount count exactly the file and directory nodes
\* below it.
C11_SelectionApplied ==
    Walked =>
        /\ \A n \in NodesOf(root) \ {root} :
              /\ ~MatchesSome(cfg.ExcludePatterns, n.Path)
              /\ Len(cfg.IncludePatterns) > 0 => MatchesSome(cfg.IncludePatterns, n.Path)
        /\ \A i \in 1..Len(fs.entries) :
              LET path == Join(root.Path, fs.entries[i].name) IN
              (\/ MatchesSome(cfg.ExcludePatterns, path)
               \/ Len(cfg.IncludePatterns) > 0 /\ ~MatchesSome(cfg.IncludePatterns, path))
                 => ChildrenNamed(root, fs.entries[i].name) = {}
        /\ root.FileCount = Cardinality(FileNodesOf(root))
        /\ root.DirCount = Cardinality(DirNodesOf(root)) - 1

\* C11 witness: under an include pattern, a directory with a file that matches
\* it and a file that does not yields the first only, counted once.
C11_Witness ==
    /\ pc = "formatted"
    /\ root.IsDir
    /\ Len(cfg.IncludePatterns) > 0
    /\ Len(fs.entries) = 2
    /\ \A i \in 1..2 : ~fs.entries[i].isDir
    /\ Len(root.Children) = 1
    /\ root.FileCount = 1
    /\ Len(result.FileContents) = 1

\* The file has a NUL byte among the bytes isBinaryFile reads.
HasNulInSniff(f) == \E i \in 1..Min(SniffLen, Len(f.bytes)) : f.bytes[i] = "NUL"

\* C12 (as stated): every file node whose file has a NUL byte within its
\* first 512 bytes has the binary sentinel as Content, whatever its extension
\* and whatever its size relative to MaxFileSize.
C12_NulAlwaysBinary ==
    Returned =>
        \A n \in FileNodesOf(root) :
            HasNulInSniff(SourceOf(n)) => n.Content = BinaryFile

\* C12 (amended): a file node whose file has a NUL byte within its first 512
\* bytes and whose size is at most MaxFileSize has the binary sentinel as
\* Content, whatever its extension; above MaxFileSize it has the "too large"
\* sentinel.
C12_NulBinaryWithinLimit ==
    Returned =>
        \A n \in FileNodesOf(root) :
            HasNulInSniff(SourceOf(n)) =>
                n.Content = IF n.Size > cfg.MaxFileSize THEN FileTooLarge ELSE BinaryFile

\* C12 witness: a file with a text extension and a NUL byte, within
\* MaxFileSize, was given the binary sentinel.
C12_Witness ==
    /\ Returned
    /\ \E n \in FileNodesOf(root) :
          /\ HasNulInSniff(SourceOf(n))
          /\ ~SourceOf(n).openErr
          /\ Ext(n.Path) # <<>>
          /\ ToLower(Ext(n.Path)) \notin binaryExts
          /\ n.Size <= cfg.MaxFileSize
          /\ n.Content = BinaryFile

\* The file is one the claim calls loadable text: within MaxFileSize, no
\* known-binary extension, no NUL byte in the sniffed bytes, opens and reads.
LoadableText(n, f) ==
    /\ n.Size <= cfg.MaxFileSize
    /\ ToLower(Ext(n.Path)) \notin binaryExts
    /\ ~HasNulInSniff(f)
    /\ ~f.openErr
    /\ ~f.readErr

\* C14: every file node whose file is within MaxFileSize, has no known-binary
\* extension, has no NUL byte in its first 512 bytes and reads successfully
\* has Content equal to the file's bytes, for every length including zero.
C14_VerbatimText ==
    Returned =>
        \A n \in FileNodesOf(root) :
            LoadableText(n, SourceOf(n)) => n.Content = SourceOf(n).bytes

\* Children of d of the same kind whose lower-cased names are equal stand in
\* the byte order of their names.
TiesInByteOrder(d) ==
    \A i, j \in 1..Len(d.Children) :
        LET a == d.Children[i]
            b == d.Children[j]
        IN  (i < j /\ a.IsDir = b.IsDir /\ ToLower(a.Name) = ToLower(b.Name))
                => ~StrLess(b.Name, a.Name)

\* C15: after ProcessPath returns, two children of one directory that are of
\* the same kind and have equal lower-cased names appear in the byte order of
\* their names, whatever else the directory contains.
C15_TieBreak ==
    Walked => \A d \in DirNodesOf(root) : TiesInByteOrder(d)

\* Every entry below the directory f (at fpath) of the scanned filesystem,
\* with its path.
RECURSIVE EntriesUnder(_, _)
EntriesUnder(f, fpath) ==
    UNION { LET path == Join(fpath, f.entries[i].name)
            IN  {[path |-> path, entry |-> f.entries[i]]}
                    \cup EntriesUnder(f.entries[i], path)
            : i \in 1..Len(f.entries) }

\* The path is dir or lies below it.
Under(path, dir) == path = dir \/ HasPrefix(path, dir \o <<Separator>>)

\* C16: with include patterns set, a subdirectory whose path matches none of
\* them is not descended into: the tree has no node at or below it, so every
\* node at depth 2 or more lies in a directory matching an include pattern.
C16_IncludePrunesDirectories ==
    (Walked /\ Len(cfg.IncludePatterns) > 0) =>
        /\ \A e \in EntriesUnder(fs, root.Path) :
              (e.entry.isDir /\ ~MatchesSome(cfg.IncludePatterns, e.path))
                  => \A n \in NodesOf(root) : ~Under(n.Path, e.path)
        /\ \A n \in NodesOf(root) :
              n.Depth >= 2 => MatchesSome(cfg.IncludePatterns, Dir(n.Path))

\* C16 witness: with only the include patterns changed from the defaults, a
\* file matching one of them sits in a directory matching none and is absent
\* from the tree, while a file in a matching directory is present.
C16_Witness ==
    /\ pc = "formatted"
    /\ root.IsDir
    /\ Len(cfg.IncludePatterns) > 0
    /\ [cfg EXCEPT !.IncludePatterns = <<>>] = NewConfig
    /\ \E n \in FileNodesOf(root) : n.Depth = 2
    /\ \E e \in EntriesUnder(fs, root.Path) :
          /\ ~e.entry.isDir
          /\ MatchesSome(cfg.IncludePatterns, e.path)
          /\ ~MatchesSome(cfg.IncludePatterns, Dir(e.path))
          /\ \A n \in NodesOf(root) : n.Path # e.path

====
